---- MODULE Spec2Model ----
(***************************************************************************)
(* A model of server/app.py (StamFree): the Wav2Vec classification helper  *)
(* predict_file, the heuristic analyzers, and the five analysis endpoints. *)
(*                                                                         *)
(* Units.  Clip lengths are counted in samples at SAMPLE_RATE.  A          *)
(* probability is an integer number of 1/ProbUnits.  Word times are        *)
(* integer numbers of 1/TimeUnits second.  An RMS value is an integer      *)
(* number of 1/RmsUnits.  Real arithmetic of the code is done exactly on   *)
(* these integers (cross-multiplied), so IEEE rounding is not modelled.    *)
(***************************************************************************)
EXTENDS Integers, Sequences, FiniteSets, TLC

VARIABLES cls, tur, bre, amp, snk, req, fs

vars == <<cls, tur, bre, amp, snk, req, fs>>

\* The variables other than the named one (req and fs go together).
NotCls == <<tur, bre, amp, snk, req, fs>>
NotTur == <<cls, bre, amp, snk, req, fs>>
NotBre == <<cls, tur, amp, snk, req, fs>>
NotAmp == <<cls, tur, bre, snk, req, fs>>
NotSnk == <<cls, tur, bre, amp, req, fs>>
NotReq == <<cls, tur, bre, amp, snk>>

(***************************************************************************)
(* Bounds of the model.                                                    *)
(***************************************************************************)
ProbUnits == 20
ClipStep == 1600
MaxClipSteps == 45
TimeUnits == 2
MaxTime == 7
MaxWords == 3
RmsUnits == 10000
MaxBreathRuns == 3
MaxAmpRuns == 3
MaxSttWords == 2
MaxRequests == 2

(***************************************************************************)
(* Program constants.                                                      *)
(***************************************************************************)
SAMPLE_RATE == 16000
HopLength == 512
MAX_AUDIO_BYTES == 5 * 1024 * 1024
ALLOWED_EXTENSIONS == {"wav", "m4a", "mp3"}
MaxLength == 16000 * 3

(***************************************************************************)
(* predict_file: the classifier.                                           *)
(***************************************************************************)
ClassNames == <<"fluent", "block", "prolongation", "repetition">>
ClassIds == 0..3
LabelSchemes == {"prefixed", "plain", "title"}

\* str.capitalize() and str.lower() on the words that occur in labels.
Capitalize(w) ==
    CASE w \in {"fluent", "Fluent"} -> "Fluent"
      [] w \in {"block", "Block"} -> "Block"
      [] w \in {"prolongation", "Prolongation"} -> "Prolongation"
      [] w \in {"repetition", "Repetition"} -> "Repetition"
      [] OTHER -> w

Lower(w) ==
    CASE w \in {"fluent", "Fluent"} -> "fluent"
      [] w \in {"block", "Block"} -> "block"
      [] w \in {"prolongation", "Prolongation"} -> "prolongation"
      [] w \in {"repetition", "Repetition"} -> "repetition"
      [] w = "MP3" -> "mp3"
      [] OTHER -> w

\* model.config.id2label: a label is the sequence of its "_"-separated parts.
id2label(scheme, id) ==
    CASE scheme = "prefixed" -> <<ToString(id), ClassNames[id + 1]>>
      [] scheme = "plain" -> <<ClassNames[id + 1]>>
      [] OTHER -> <<Capitalize(ClassNames[id + 1])>>

\* sub in label.lower(), for a sub that holds no "_".
ContainsLower(sub, label) == \E i \in 1..Len(label) : Lower(label[i]) = sub

\* The probability vectors softmax can return, in 1/ProbUnits.
ProbVectors ==
    {p \in [1..4 -> 0..ProbUnits] : p[1] + p[2] + p[3] + p[4] = ProbUnits}

\* torch.max(probs, dim=-1): the index of the first maximal value.
TorchMax(p) ==
    CHOOSE i \in 1..4 : (\A j \in 1..4 : p[j] <= p[i])
                        /\ (\A j \in 1..(i - 1) : p[j] < p[i])

\* processor(..., truncation=True, max_length=16000*3): the samples the model sees.
ProcessorLenNoTruncation(n) == n

ProcessorLen(n) == IF n > MaxLength THEN MaxLength ELSE n

\* is_stutter = "fluent" not in label.lower()
IsStutterByThreshold(label, score) ==
    ~ContainsLower("fluent", label) /\ score * 100 > 60 * ProbUnits

IsStutter(label, score) == ~ContainsLower("fluent", label)

\* stutter_type of analyze_audio.
StutterTypeBlockFallback(label, score) ==
    IF IsStutter(label, score)
    THEN IF score * 100 < 45 * ProbUnits THEN "Block"
         ELSE IF Len(label) > 1 THEN Capitalize(label[2]) ELSE Capitalize(label[1])
    ELSE "Fluent"

StutterType(label, score) ==
    IF IsStutter(label, score)
    THEN IF Len(label) > 1 THEN Capitalize(label[2]) ELSE Capitalize(label[1])
    ELSE "Fluent"

ClipLens == {k * ClipStep : k \in 0..MaxClipSteps}

\* A part of the program that is not running in the specification at hand.
Idle == [pc |-> "idle"]

ClsInit ==
    /\ cls \in [pc : {"load"}, scheme : LabelSchemes, clip_len : ClipLens,
                calls : {0}]
    /\ tur = Idle /\ bre = Idle /\ amp = Idle /\ snk = Idle
    /\ req = Idle /\ fs = Idle

\* librosa.load(filepath, sr=16000)
ClsLoad ==
    /\ cls.pc = "load"
    /\ cls' = [pc |-> "infer", scheme |-> cls.scheme, clip_len |-> cls.clip_len,
               calls |-> cls.calls, audio_len |-> cls.clip_len]
    /\ UNCHANGED NotCls

\* processor, model, softmax, torch.max, id2label: one inference per clip.
ClsInfer ==
    /\ cls.pc = "infer"
    /\ \E p \in ProbVectors :
         cls' = [pc |-> "analyze", scheme |-> cls.scheme, clip_len |-> cls.clip_len,
                 calls |-> cls.calls + 1,
                 window_start |-> 0,
                 input_len |-> ProcessorLen(cls.audio_len),
                 probs |-> p,
                 label |-> id2label(cls.scheme, TorchMax(p) - 1),
                 score |-> p[TorchMax(p)]]
    /\ UNCHANGED NotCls

\* analyze_audio, from predict_file's return to the response fields.
ClsAnalyze ==
    /\ cls.pc = "analyze"
    /\ cls' = [pc |-> "done", scheme |-> cls.scheme, clip_len |-> cls.clip_len,
               calls |-> cls.calls, window_start |-> cls.window_start,
               input_len |-> cls.input_len, probs |-> cls.probs,
               label |-> cls.label, score |-> cls.score,
               response |-> [is_stutter |-> IsStutter(cls.label, cls.score),
                             stutter_score |-> cls.score,
                             type |-> StutterType(cls.label, cls.score)]]
    /\ UNCHANGED NotCls

ClsNext == ClsLoad \/ ClsInfer \/ ClsAnalyze

SpecClassify == ClsInit /\ [][ClsNext]_vars

(***************************************************************************)
(* calculate_wpm and analyze_turtle.                                       *)
(***************************************************************************)
\* The predictions predict_file can return to a handler: (label, score),
\* over the probability vectors whose entries are quarters.
PredictFile(scheme, p) ==
    [label |-> id2label(scheme, TorchMax(p) - 1), score |-> p[TorchMax(p)]]

PredictionsOf(schemes) ==
    {PredictFile(sc, p) : sc \in schemes,
                          p \in {q \in ProbVectors : \A i \in 1..4 : (q[i] * 4) % ProbUnits = 0}}

Predictions == PredictionsOf(LabelSchemes)

\* The same with the labels the code expects ("0_fluent", "1_block", ...).
PrefixedPredictions == PredictionsOf({"prefixed"})

\* round(x, ndigits) on the exact quotient num / den (den > 0, num >= 0); a
\* quotient halfway between two neighbours goes to the even one.
RoundDown(num, den) == num \div den

Round(num, den) ==
    LET q == num \div den
        r == num % den
    IN  IF 2 * r < den THEN q
        ELSE IF 2 * r > den THEN q + 1
        ELSE IF q % 2 = 0 THEN q ELSE q + 1

\* The word lists speech-to-text can return: up to MaxWords words in time
\* order, times in 1/TimeUnits s.
TimePoints == 0..MaxTime

WordLists ==
    UNION {{w \in [1..n -> [start : TimePoints, end : TimePoints]] :
              /\ \A i \in 1..n : w[i].start <= w[i].end
              /\ \A i \in 1..(n - 1) : w[i].end <= w[i + 1].start} : n \in 0..MaxWords}

\* calculate_wpm(words_data), in tenths of a word per minute.
calculate_wpm_truncating(words_data) ==
    IF Len(words_data) < 2 THEN 0
    ELSE LET duration == words_data[Len(words_data)].end - words_data[1].start
         IN  IF duration <= 0 THEN 0
             ELSE RoundDown(Len(words_data) * TimeUnits * 60 * 10, duration)

calculate_wpm(words_data) ==
    IF Len(words_data) < 2 THEN 0
    ELSE LET duration == words_data[Len(words_data)].end - words_data[1].start
         IN  IF duration <= 0 THEN 0
             ELSE Round(Len(words_data) * TimeUnits * 60 * 10, duration)

TurInit ==
    /\ tur \in [pc : {"predict"}, words : WordLists]
    /\ cls = Idle /\ bre = Idle /\ amp = Idle /\ snk = Idle
    /\ req = Idle /\ fs = Idle

\* label, score = predict_file(filepath)
TurPredict ==
    /\ tur.pc = "predict"
    /\ \E pr \in Predictions :
         tur' = [pc |-> "decide", words |-> tur.words,
                 label |-> pr.label, score |-> pr.score]
    /\ UNCHANGED NotTur

\* analyze_turtle from predict_file's return to the response.
TurtleResponse(label, score, words) ==
    LET is_stutter == ~ContainsLower("fluent", label)
        block_detected == ContainsLower("block", label)
        wpm == IF words # <<>> THEN calculate_wpm(words) ELSE 0
        game_pass == wpm < 120 * 10 /\ wpm > 0
        clinical_pass == ~block_detected
    IN  [wpm |-> wpm, game_pass |-> game_pass,
         stutter_detected |-> is_stutter,
         block_detected |-> block_detected,
         clinical_pass |-> clinical_pass,
         confidence |-> score,
         is_hit |-> game_pass /\ clinical_pass]

TurDecide ==
    /\ tur.pc = "decide"
    /\ tur' = [pc |-> "done", words |-> tur.words,
               label |-> tur.label, score |-> tur.score,
               response |-> TurtleResponse(tur.label, tur.score, tur.words)]
    /\ UNCHANGED NotTur

TurNext == TurPredict \/ TurDecide

SpecTurtle == TurInit /\ [][TurNext]_vars


(***************************************************************************)
(* Frame-wise RMS clips: the inputs of the heuristic analyzers.            *)
(***************************************************************************)
RECURSIVE ClipsOfRuns(_, _, _)
\* The RMS sequences made of exactly k runs, each of one level and length.
ClipsOfRuns(k, levels, lens) ==
    IF k = 0 THEN {<<>>}
    ELSE {c \o [i \in 1..n |-> l] : c \in ClipsOfRuns(k - 1, levels, lens),
                                    l \in levels, n \in lens}

\* librosa.feature.rms (hop 512, centered) gives 1 + len(audio) // 512 frames:
\* the audio lengths that give a sequence of `frames` frames, sampled.
SampleOffsets == {0, 448, 511}

AudioLens(frames) == {HopLength * (frames - 1) + off : off \in SampleOffsets}

(***************************************************************************)
(* detect_breath and analyze_balloon.                                      *)
(***************************************************************************)
\* rms < silence_threshold (0.01)
IsSilent(v) == v * 100 < RmsUnits

\* silence_count * frame_duration >= min_silence (0.3), where
\* frame_duration = len(audio) / sr / len(rms)
MinSilenceReachedStrict(silence_count, audio_len, frames) ==
    silence_count * audio_len * 10 > 3 * SAMPLE_RATE * frames

MinSilenceReached(silence_count, audio_len, frames) ==
    silence_count * audio_len * 10 >= 3 * SAMPLE_RATE * frames

RECURSIVE BreathLoop(_, _, _, _, _)
\* The for loop of detect_breath from frame i (1-based) on; amplitude_onset
\* is in thousandths.
BreathLoop(rms, audio_len, i, silence_count, has_silence) ==
    IF i > Len(rms)
    THEN [breath_detected |-> has_silence, amplitude_onset |-> 0]
    ELSE IF IsSilent(rms[i])
    THEN BreathLoop(rms, audio_len, i + 1, silence_count + 1, has_silence)
    ELSE IF silence_count > 0
    THEN IF MinSilenceReached(silence_count, audio_len, Len(rms))
         THEN IF i - 1 < Len(rms)
              THEN [breath_detected |-> TRUE,
                    amplitude_onset |-> Round(rms[i] * 1000, RmsUnits)]
              ELSE BreathLoop(rms, audio_len, i + 1, 0, TRUE)
         ELSE BreathLoop(rms, audio_len, i + 1, 0, has_silence)
    ELSE BreathLoop(rms, audio_len, i + 1, silence_count, has_silence)

detect_breath(audio_len, rms) == BreathLoop(rms, audio_len, 1, 0, FALSE)

BreathLevels == {99, 100, 104}
BreathRunLens == {6, 10}

BreathClips ==
    UNION {ClipsOfRuns(k, BreathLevels, BreathRunLens) : k \in 1..MaxBreathRuns}

BreInit ==
    /\ \E c \in BreathClips : \E n \in AudioLens(Len(c)) :
         bre = [pc |-> "predict", rms |-> c, audio_len |-> n]
    /\ cls = Idle /\ tur = Idle /\ amp = Idle /\ snk = Idle
    /\ req = Idle /\ fs = Idle

\* label, score = predict_file(filepath)
BrePredict ==
    /\ bre.pc = "predict"
    /\ \E pr \in PrefixedPredictions :
         bre' = [pc |-> "breath", rms |-> bre.rms, audio_len |-> bre.audio_len,
                 label |-> pr.label, score |-> pr.score]
    /\ UNCHANGED NotBre

\* analyze_balloon from predict_file's return to the response.
BalloonResponse(label, score, breath_data) ==
    LET hard_attack == ContainsLower("block", label)
                       \/ (score * 10 > 9 * ProbUnits /\ ~ContainsLower("fluent", label))
        game_pass == breath_data.breath_detected
        clinical_pass == ~hard_attack
    IN  [breath_detected |-> breath_data.breath_detected,
         amplitude_onset |-> breath_data.amplitude_onset,
         game_pass |-> game_pass,
         hard_attack_detected |-> hard_attack,
         clinical_pass |-> clinical_pass,
         confidence |-> score,
         is_hit |-> game_pass /\ clinical_pass]

BreDecide ==
    /\ bre.pc = "breath"
    /\ \E breath_data \in {detect_breath(bre.audio_len, bre.rms)} :
         bre' = [pc |-> "done", rms |-> bre.rms, audio_len |-> bre.audio_len,
                 label |-> bre.label, score |-> bre.score,
                 response |-> BalloonResponse(bre.label, bre.score, breath_data)]
    /\ UNCHANGED NotBre

BreNext == BrePredict \/ BreDecide

SpecBreath == BreInit /\ [][BreNext]_vars

(***************************************************************************)
(* analyze_amplitude and the amplitude rule of analyze_snake.              *)
(***************************************************************************)
\* rms > threshold (0.02)
AboveThreshold(v) == v * 100 > 2 * RmsUnits

RECURSIVE AmplitudeLoop(_, _, _, _)
\* The for loop of analyze_amplitude from frame i on: max_sustained.
AmplitudeLoop(rms, i, sustained_frames, max_sustained) ==
    IF i > Len(rms) THEN max_sustained
    ELSE IF AboveThreshold(rms[i])
    THEN AmplitudeLoop(rms, i + 1, sustained_frames + 1,
                       IF sustained_frames + 1 > max_sustained
                       THEN sustained_frames + 1 ELSE max_sustained)
    ELSE AmplitudeLoop(rms, i + 1, 0, max_sustained)

\* sustained_duration >= min_duration (1.5), where sustained_duration =
\* max_sustained * (len(audio) / sr / len(rms))
AmplitudeSustainedStrict(max_sustained, audio_len, frames) ==
    max_sustained * audio_len * 2 > 3 * SAMPLE_RATE * frames

AmplitudeSustained(max_sustained, audio_len, frames) ==
    max_sustained * audio_len * 2 >= 3 * SAMPLE_RATE * frames

\* analyze_amplitude on the trimmed audio; duration_sec is in hundredths.
analyze_amplitude(audio_len, rms) ==
    LET result(max_sustained) ==
            [max_sustained |-> max_sustained,
             duration_sec |-> Round(max_sustained * audio_len * 100, SAMPLE_RATE * Len(rms)),
             amplitude_sustained |-> AmplitudeSustained(max_sustained, audio_len, Len(rms))]
    IN  result(AmplitudeLoop(rms, 1, 0, 0))

AmpLevels == {0, 200, 201}
AmpRunLens == {1, 47}

AmpClips == UNION {ClipsOfRuns(k, AmpLevels, AmpRunLens) : k \in 1..MaxAmpRuns}

AmpInit ==
    /\ \E c \in AmpClips : \E n \in AudioLens(Len(c)) :
         amp = [pc |-> "predict", rms |-> c, audio_len |-> n]
    /\ cls = Idle /\ tur = Idle /\ bre = Idle /\ snk = Idle
    /\ req = Idle /\ fs = Idle

\* label, score = predict_file(filepath)
AmpPredict ==
    /\ amp.pc = "predict"
    /\ \E pr \in PrefixedPredictions :
         amp' = [pc |-> "amplitude", rms |-> amp.rms, audio_len |-> amp.audio_len,
                 label |-> pr.label, score |-> pr.score]
    /\ UNCHANGED NotAmp

\* analyze_snake: the amplitude check, game_pass and clinical_pass.
AmpDecide ==
    /\ amp.pc = "amplitude"
    /\ LET repetition_detected == ContainsLower("repetition", amp.label)
       IN  \E amp_data \in {analyze_amplitude(amp.audio_len, amp.rms)} :
             amp' = [pc |-> "done", rms |-> amp.rms, audio_len |-> amp.audio_len,
                     label |-> amp.label, score |-> amp.score,
                     max_sustained |-> amp_data.max_sustained,
                     response |-> [duration_sec |-> amp_data.duration_sec,
                                   amplitude_sustained |-> amp_data.amplitude_sustained,
                                   game_pass |-> amp_data.amplitude_sustained,
                                   repetition_detected |-> repetition_detected,
                                   clinical_pass |-> ~repetition_detected]]
    /\ UNCHANGED NotAmp

AmpNext == AmpPredict \/ AmpDecide

SpecAmp == AmpInit /\ [][AmpNext]_vars


(***************************************************************************)
(* analyze_voicing_noise, phoneme validation and analyze_snake.            *)
(***************************************************************************)
PHONEME_MAP ==
    [k \in {"AA", "AE", "AH", "AO", "AW", "AY", "B", "CH", "D", "DH", "EH", "ER",
            "EY", "F", "G", "HH", "IH", "IY", "JH", "K", "L", "M", "N", "NG", "OW",
            "OY", "P", "R", "S", "SH", "T", "TH", "UH", "UW", "V", "W", "Y", "Z",
            "ZH"} |->
        CASE k \in {"AA", "AE", "EY"} -> "a"
          [] k \in {"AH", "UH"} -> "u"
          [] k = "AO" -> "aw"
          [] k = "AW" -> "ow"
          [] k \in {"AY", "IH"} -> "i"
          [] k = "B" -> "b"
          [] k = "CH" -> "ch"
          [] k = "D" -> "d"
          [] k \in {"DH", "TH"} -> "th"
          [] k = "EH" -> "e"
          [] k = "ER" -> "er"
          [] k = "F" -> "f"
          [] k = "G" -> "g"
          [] k = "HH" -> "h"
          [] k = "IY" -> "ee"
          [] k = "JH" -> "j"
          [] k = "K" -> "k"
          [] k = "L" -> "l"
          [] k = "M" -> "m"
          [] k = "N" -> "n"
          [] k = "NG" -> "ng"
          [] k = "OW" -> "o"
          [] k = "OY" -> "oy"
          [] k = "P" -> "p"
          [] k = "R" -> "r"
          [] k = "S" -> "s"
          [] k = "SH" -> "sh"
          [] k = "T" -> "t"
          [] k = "UW" -> "oo"
          [] k = "V" -> "v"
          [] k = "W" -> "w"
          [] k = "Y" -> "y"
          [] k = "Z" -> "z"
          [] OTHER -> "zh"]

voiced_targets ==
    {"a", "e", "i", "o", "u", "oo", "ee", "er", "m", "n", "l", "r", "w", "y",
     "ng", "v", "z", "j"}

\* The targetPhoneme form field: "" stands for an absent or empty field.
TargetPhonemes == {"", "s", "a", " M "}

\* target_phoneme.strip().lower()
StripLower(t) == CASE t = " M " -> "m" [] OTHER -> t

\* ''.join(i for i in p if not i.isdigit()) on g2p's tokens.
StripDigits(p) ==
    CASE p = "EY1" -> "EY"
      [] p = "UW1" -> "UW"
      [] OTHER -> p

\* What g2p returns for a transcribed word ("snake", "moon"), or G2pRaises
\* when the call raises.
G2pRaises == <<"(raises)">>

G2pOutputs == {<<"S", "N", "EY1", "K">>, <<"M", "UW1", "N", " ">>, G2pRaises}

\* The word lists get_google_transcript returns; it returns "", [] on any error.
SttWordLists == UNION {[1..n -> G2pOutputs] : n \in 0..MaxSttWords}

\* found, the result of the loop over words.
PhonemeFound(words, target) ==
    \E w \in 1..Len(words) :
        /\ words[w] # G2pRaises
        /\ \E i \in 1..Len(words[w]) :
              /\ words[w][i] \notin {" ", "'"}
              /\ LET raw == StripDigits(words[w][i])
                     mapped == IF raw \in DOMAIN PHONEME_MAP THEN PHONEME_MAP[raw]
                               ELSE Lower(raw)
                 IN  Lower(mapped) = target

\* Step 4 of analyze_snake: phoneme_match ("None", "True" or "False").
PhonemeValidation(target_phoneme, words, voiced_detected) ==
    IF target_phoneme = "" THEN "None"
    ELSE IF words # <<>>
    THEN IF PhonemeFound(words, StripLower(target_phoneme)) THEN "True" ELSE "False"
    ELSE IF voiced_detected THEN "None" ELSE "False"

\* Step 5 of analyze_snake: the anti-blow rule.
AntiBlow(target_phoneme, phoneme_match, voiced_detected, score) ==
    IF target_phoneme # "" /\ StripLower(target_phoneme) \in voiced_targets
    THEN LET speech_likely == voiced_detected \/ score * 10 > 6 * ProbUnits
                              \/ phoneme_match = "True"
         IN  IF ~speech_likely /\ phoneme_match = "False" THEN phoneme_match
             ELSE IF ~speech_likely /\ phoneme_match = "None" THEN "False"
             ELSE phoneme_match
    ELSE phoneme_match

\* confidence_score, in hundredths.
ConfidenceScore(game_pass, clinical_pass, phoneme_match, voiced_detected) ==
    (IF game_pass THEN 40 ELSE 0)
    + (IF clinical_pass THEN 30 ELSE 0)
    + (IF phoneme_match = "True" THEN 20
       ELSE IF phoneme_match = "None" THEN 15 ELSE 0)
    + (IF voiced_detected THEN 10 ELSE 0)

\* What analyze_voicing_noise reads from the clip (ratios in percent), or
\* VoicingError when loading or feature extraction raises.
VoicingError == [error |-> TRUE]

VoicingInputs ==
    {VoicingError} \cup [audio_len : {3200, 16000}, pitched_ratio : {0, 10, 15, 50},
                         zcr_mean : {10, 30}]

analyze_voicing_noise(in) ==
    IF in = VoicingError THEN [voiced_detected |-> FALSE, noise_suspected |-> TRUE]
    ELSE IF in.audio_len * 10 < 3 * SAMPLE_RATE
    THEN [voiced_detected |-> FALSE, noise_suspected |-> TRUE]
    ELSE [voiced_detected |-> in.pitched_ratio >= 15,
          noise_suspected |-> in.pitched_ratio * 100 < 15 * 67 /\ in.zcr_mean > 20]

\* The clips the Snake handler's amplitude check is run on here.
SnakeClips == ClipsOfRuns(1, {0, 201}, {47})

\* analyze_amplitude's result, or its default when it raises.
AmplitudeResults ==
    {[duration_sec |-> 0, amplitude_sustained |-> FALSE]}
    \cup {[duration_sec |-> analyze_amplitude(n, c).duration_sec,
           amplitude_sustained |-> analyze_amplitude(n, c).amplitude_sustained] :
            c \in SnakeClips, n \in AudioLens(47)}

SnkInit ==
    /\ snk \in [pc : {"predict"}, target_phoneme : TargetPhonemes]
    /\ cls = Idle /\ tur = Idle /\ bre = Idle /\ amp = Idle
    /\ req = Idle /\ fs = Idle

\* label, score = predict_file(filepath)
SnkPredict ==
    /\ snk.pc = "predict"
    /\ \E pr \in PrefixedPredictions :
         snk' = [pc |-> "amplitude", target_phoneme |-> snk.target_phoneme,
                 label |-> pr.label, score |-> pr.score]
    /\ UNCHANGED NotSnk

\* Steps 2 and 3: the amplitude check and the voicing analysis.
SnkHeuristics ==
    /\ snk.pc = "amplitude"
    /\ \E amp_data \in AmplitudeResults, v \in VoicingInputs :
         snk' = [pc |-> "phoneme", target_phoneme |-> snk.target_phoneme,
                 label |-> snk.label, score |-> snk.score,
                 amp_data |-> amp_data,
                 voiced_detected |-> analyze_voicing_noise(v).voiced_detected]
    /\ UNCHANGED NotSnk

\* Step 4: speech-to-text (only for a supplied target) and phoneme validation.
SnkPhoneme ==
    /\ snk.pc = "phoneme"
    /\ \E words \in (IF snk.target_phoneme = "" THEN {<<>>} ELSE SttWordLists) :
         snk' = [pc |-> "antiblow", target_phoneme |-> snk.target_phoneme,
                 label |-> snk.label, score |-> snk.score,
                 amp_data |-> snk.amp_data, voiced_detected |-> snk.voiced_detected,
                 words |-> words,
                 phoneme_match |->
                     PhonemeValidation(snk.target_phoneme, words, snk.voiced_detected)]
    /\ UNCHANGED NotSnk

\* analyze_snake from the anti-blow rule to the response; phoneme_match is
\* the result of step 4.
SnakeResponse(target_phoneme, label, score, amp_data, voiced_detected, phoneme_match4) ==
    LET repetition_detected == ContainsLower("repetition", label)
        game_pass == amp_data.amplitude_sustained
        clinical_pass == ~repetition_detected
        phoneme_match == AntiBlow(target_phoneme, phoneme_match4, voiced_detected, score)
        stutter_type == IF repetition_detected THEN "Repetition"
                        ELSE IF ~game_pass THEN "Block" ELSE "Fluent"
    IN  [isStutter |-> repetition_detected \/ ~game_pass,
         stutterType |-> stutter_type,
         confidence |-> ConfidenceScore(game_pass, clinical_pass, phoneme_match,
                                        voiced_detected),
         speech_prob |-> score,
         starsAwarded |-> IF stutter_type \in {"Repetition", "Block"} THEN 1 ELSE 3,
         duration_sec |-> amp_data.duration_sec,
         amplitude_sustained |-> amp_data.amplitude_sustained,
         game_pass |-> game_pass,
         repetition_detected |-> repetition_detected,
         clinical_pass |-> clinical_pass,
         phoneme_match |-> phoneme_match,
         voiced_detected |-> voiced_detected,
         is_hit |-> game_pass /\ clinical_pass]

SnkRespond ==
    /\ snk.pc = "antiblow"
    /\ snk' = [pc |-> "done", target_phoneme |-> snk.target_phoneme,
               label |-> snk.label, score |-> snk.score,
               amp_data |-> snk.amp_data, voiced_detected |-> snk.voiced_detected,
               words |-> snk.words, phoneme_match |-> snk.phoneme_match,
               response |-> SnakeResponse(snk.target_phoneme, snk.label, snk.score,
                                          snk.amp_data, snk.voiced_detected,
                                          snk.phoneme_match)]
    /\ UNCHANGED NotSnk

SnkNext == SnkPredict \/ SnkHeuristics \/ SnkPhoneme \/ SnkRespond

SpecSnake == SnkInit /\ [][SnkNext]_vars


(***************************************************************************)
(* The five analysis endpoints: a request's life from arrival to the       *)
(* response, with the upload's file on disk.  Requests are served one      *)
(* after another here.                                                     *)
(***************************************************************************)
Reqs == 1..MaxRequests

Endpoints == {"audio", "turtle", "snake", "balloon", "onetap"}

\* secure_filename(file.filename), as its "."-separated parts; the path is
\* os.path.join(os.getcwd(), filename).
Filenames == {<<"clip", "wav">>, <<"clip", "MP3">>, <<"clip", "txt">>, <<"clip">>}

\* filename.rsplit('.', 1)[-1].lower() if '.' in filename else ''
Extension(filename) ==
    IF Len(filename) > 1 THEN Lower(filename[Len(filename)]) ELSE ""

\* The requests a client can send: content_length is the payload's size,
\* decodable says whether the payload is audio librosa can load.
Uploads ==
    [endpoint : Endpoints, has_file : {FALSE}, filename : {<<"clip", "wav">>},
     content_length : {MAX_AUDIO_BYTES}, decodable : {FALSE}, target_phoneme : {""}]
    \cup [endpoint : Endpoints \ {"snake"}, has_file : {TRUE}, filename : Filenames,
          content_length : {MAX_AUDIO_BYTES, MAX_AUDIO_BYTES + 1},
          decodable : BOOLEAN, target_phoneme : {""}]
    \cup [endpoint : {"snake"}, has_file : {TRUE}, filename : Filenames,
          content_length : {MAX_AUDIO_BYTES, MAX_AUDIO_BYTES + 1},
          decodable : BOOLEAN, target_phoneme : {"", "a"}]

\* The checks a handler makes before file.save: the error code, "" for none.
ValidationError(u) ==
    IF u.endpoint = "snake"
    THEN IF ~u.has_file THEN "MISSING_FIELD"
         ELSE IF Extension(u.filename) \notin ALLOWED_EXTENSIONS THEN "INVALID_FORMAT"
         ELSE IF u.content_length # 0 /\ u.content_length > MAX_AUDIO_BYTES
         THEN "FILE_TOO_LARGE"
         ELSE ""
    ELSE IF ~u.has_file THEN "No file" ELSE ""

NoFile == [exists |-> FALSE]

ReqInit ==
    /\ req = [r \in Reqs |-> Idle]
    /\ fs = [f \in Filenames |-> NoFile]
    /\ cls = Idle /\ tur = Idle /\ bre = Idle /\ amp = Idle /\ snk = Idle

\* A request arrives; the one before it has been answered.
Receive(r) ==
    /\ req[r].pc = "idle"
    /\ \A q \in 1..(r - 1) : req[q].pc = "finished"
    /\ \E u \in Uploads :
         req' = [req EXCEPT ![r] =
                   [pc |-> "validate", upload |-> u, wrote |-> FALSE, saved |-> FALSE,
                    predict_calls |-> 0, stt_calls |-> 0, heuristic_calls |-> 0,
                    raised |-> FALSE, status |-> 0, prediction |-> Idle,
                    response |-> Idle]]
    /\ UNCHANGED <<fs, NotReq>>

\* The handler's checks before file.save.
Validate(r) ==
    /\ req[r].pc = "validate"
    /\ req' = [req EXCEPT ![r] =
                 IF ValidationError(req[r].upload) # ""
                 THEN [@ EXCEPT !.pc = "done", !.status = 400,
                                !.response = [error |-> ValidationError(req[r].upload)]]
                 ELSE [@ EXCEPT !.pc = "save"]]
    /\ UNCHANGED <<fs, NotReq>>

\* file.save(filepath) writes the whole upload.
SaveOk(r) ==
    /\ req[r].pc = "save"
    /\ fs' = [fs EXCEPT ![req[r].upload.filename] =
                [exists |-> TRUE, owner |-> r, complete |-> TRUE,
                 decodable |-> req[r].upload.decodable]]
    /\ req' = [req EXCEPT ![r] = [@ EXCEPT !.pc = "predict", !.wrote = TRUE,
                                              !.saved = TRUE]]
    /\ UNCHANGED NotReq

\* file.save(filepath) raises, before creating the file or after writing a
\* part of it; it is called outside the try, so nothing cleans up.
SaveFails(r) ==
    /\ req[r].pc = "save"
    /\ \E partial \in BOOLEAN :
         /\ fs' = IF partial
                  THEN [fs EXCEPT ![req[r].upload.filename] =
                          [exists |-> TRUE, owner |-> r, complete |-> FALSE,
                           decodable |-> FALSE]]
                  ELSE fs
         /\ req' = [req EXCEPT ![r] = [@ EXCEPT !.pc = "done", !.wrote = partial,
                                                  !.raised = TRUE, !.status = 500]]
    /\ UNCHANGED NotReq

\* predict_file(filepath) returns a prediction.
PredictOk(r) ==
    /\ req[r].pc = "predict"
    /\ fs[req[r].upload.filename].exists
    /\ fs[req[r].upload.filename].decodable
    /\ \E pr \in PrefixedPredictions :
         req' = [req EXCEPT ![r] = [@ EXCEPT !.pc = "analyze",
                                            !.predict_calls = @ + 1,
                                            !.prediction = pr]]
    /\ UNCHANGED <<fs, NotReq>>

\* predict_file(filepath) raises: librosa.load cannot read the file.
PredictRaises(r) ==
    /\ req[r].pc = "predict"
    /\ ~(fs[req[r].upload.filename].exists /\ fs[req[r].upload.filename].decodable)
    /\ req' = [req EXCEPT ![r] = [@ EXCEPT !.pc = "cleanup",
                                          !.predict_calls = @ + 1,
                                          !.raised = TRUE]]
    /\ UNCHANGED <<fs, NotReq>>

\* The transcripts analyze_audio works on: g2p's output and the confidence
\* (in percent) of each word.
AudioWordLists ==
    UNION {[1..n -> [g2p : G2pOutputs, confidence : {50, 90}]] : n \in 0..MaxSttWords}

\* min(words, key=lambda w: w['confidence']): the first word of least confidence.
Culprit(words) ==
    words[CHOOSE i \in 1..Len(words) :
            /\ \A j \in 1..Len(words) : words[i].confidence <= words[j].confidence
            /\ \A j \in 1..(i - 1) : words[i].confidence < words[j].confidence]

\* final_phoneme of analyze_audio for g2p's output phonemes ("None" for None).
FinalPhoneme(phonemes) ==
    LET clean == {i \in 1..Len(phonemes) : phonemes[i] \notin {" ", "'"}}
    IN  IF clean = {} THEN "None"
        ELSE LET raw == StripDigits(phonemes[CHOOSE i \in clean : \A j \in clean : i <= j])
             IN  IF raw \in DOMAIN PHONEME_MAP THEN PHONEME_MAP[raw] ELSE Lower(raw)

\* analyze_audio after predict_file; g2p is called outside any try.
AnalyzeAudio(r) ==
    /\ req[r].pc = "analyze"
    /\ req[r].upload.endpoint = "audio"
    /\ \E words \in AudioWordLists :
         LET label == req[r].prediction.label
             score == req[r].prediction.score
             is_stutter == IsStutter(label, score)
             g2p_raises == is_stutter /\ words # <<>> /\ Culprit(words).g2p = G2pRaises
         IN  req' = [req EXCEPT ![r] =
                       IF g2p_raises
                       THEN [@ EXCEPT !.pc = "cleanup", !.stt_calls = @ + 1,
                                      !.raised = TRUE]
                       ELSE [@ EXCEPT !.pc = "cleanup", !.stt_calls = @ + 1,
                                      !.response =
                                         [is_stutter |-> is_stutter,
                                          stutter_score |-> score,
                                          type |-> StutterType(label, score),
                                          problem_phoneme |->
                                              IF is_stutter /\ words # <<>>
                                              THEN FinalPhoneme(Culprit(words).g2p)
                                              ELSE "None"]]]
    /\ UNCHANGED <<fs, NotReq>>

\* The transcripts the Turtle handler is run on here: words of 1 s each.
HandlerWordLists ==
    {w \in WordLists : \A i \in 1..Len(w) : /\ w[i].start = (i - 1) * TimeUnits
                                             /\ w[i].end = i * TimeUnits}

AnalyzeTurtle(r) ==
    /\ req[r].pc = "analyze"
    /\ req[r].upload.endpoint = "turtle"
    /\ \E words \in HandlerWordLists :
         req' = [req EXCEPT ![r] =
                   [@ EXCEPT !.pc = "cleanup", !.stt_calls = @ + 1,
                             !.response = TurtleResponse(req[r].prediction.label,
                                                         req[r].prediction.score, words)]]
    /\ UNCHANGED <<fs, NotReq>>

AnalyzeSnake(r) ==
    /\ req[r].pc = "analyze"
    /\ req[r].upload.endpoint = "snake"
    /\ \E amp_data \in AmplitudeResults, v \in VoicingInputs,
          words \in (IF req[r].upload.target_phoneme = "" THEN {<<>>} ELSE SttWordLists) :
         LET target == req[r].upload.target_phoneme
             voiced == analyze_voicing_noise(v).voiced_detected
         IN  req' = [req EXCEPT ![r] =
                       [@ EXCEPT !.pc = "cleanup",
                                 !.heuristic_calls = @ + 2,
                                 !.stt_calls = IF target = "" THEN @ ELSE @ + 1,
                                 !.response =
                                    SnakeResponse(target, req[r].prediction.label,
                                                  req[r].prediction.score, amp_data, voiced,
                                                  PhonemeValidation(target, words, voiced))]]
    /\ UNCHANGED <<fs, NotReq>>

\* detect_breath's results on some clips, and its default when it raises.
BreathResults ==
    {[breath_detected |-> FALSE, amplitude_onset |-> 0]}
    \cup {detect_breath(n, c) : c \in ClipsOfRuns(2, BreathLevels, BreathRunLens),
                                n \in AudioLens(16)}

AnalyzeBalloon(r) ==
    /\ req[r].pc = "analyze"
    /\ req[r].upload.endpoint = "balloon"
    /\ \E breath_data \in BreathResults :
         req' = [req EXCEPT ![r] =
                   [@ EXCEPT !.pc = "cleanup", !.heuristic_calls = @ + 1,
                             !.response = BalloonResponse(req[r].prediction.label,
                                                          req[r].prediction.score,
                                                          breath_data)]]
    /\ UNCHANGED <<fs, NotReq>>

AnalyzeOnetap(r) ==
    /\ req[r].pc = "analyze"
    /\ req[r].upload.endpoint = "onetap"
    /\ LET is_stutter == ~ContainsLower("fluent", req[r].prediction.label)
       IN  req' = [req EXCEPT ![r] =
                     [@ EXCEPT !.pc = "cleanup",
                               !.response = [stutter_detected |-> is_stutter,
                                             repetition_detected |-> is_stutter,
                                             clinical_pass |-> ~is_stutter,
                                             confidence |-> req[r].prediction.score]]]
    /\ UNCHANGED <<fs, NotReq>>

\* What leaves the handler once the finally block has run.
Leave(rq) ==
    [rq EXCEPT !.pc = "done", !.status = IF rq.raised THEN 500 ELSE 200]

\* finally: the file is there and os.remove deletes it, or it is not there.
CleanupRemoves(r) ==
    /\ req[r].pc = "cleanup"
    /\ fs' = [fs EXCEPT ![req[r].upload.filename] = NoFile]
    /\ req' = [req EXCEPT ![r] = Leave(@)]
    /\ UNCHANGED NotReq

\* finally: os.remove raises, which "except: pass" swallows; the file stays.
CleanupRemoveFails(r) ==
    /\ req[r].pc = "cleanup"
    /\ fs[req[r].upload.filename].exists
    /\ req' = [req EXCEPT ![r] = Leave(@)]
    /\ UNCHANGED <<fs, NotReq>>

\* The response has been sent; the next request can be served.
Finish(r) ==
    /\ req[r].pc = "done"
    /\ req' = [req EXCEPT ![r] = [pc |-> "finished"]]
    /\ UNCHANGED <<fs, NotReq>>

Next ==
    \E r \in Reqs :
        \/ Receive(r)
        \/ Validate(r)
        \/ SaveOk(r)
        \/ SaveFails(r)
        \/ PredictOk(r)
        \/ PredictRaises(r)
        \/ AnalyzeAudio(r)
        \/ AnalyzeTurtle(r)
        \/ AnalyzeSnake(r)
        \/ AnalyzeBalloon(r)
        \/ AnalyzeOnetap(r)
        \/ CleanupRemoves(r)
        \/ CleanupRemoveFails(r)
        \/ Finish(r)

Spec == ReqInit /\ [][Next]_vars


(***************************************************************************)
(* The same handlers under app.run's threaded server: a request is taken   *)
(* by its own thread as soon as it arrives, so handlers interleave at      *)
(* their calls on the file system.                                         *)
(***************************************************************************)
\* The uploads the threads are run on here: valid, decodable audio under
\* one of two names.
ThreadUploads ==
    {u \in Uploads : /\ u.has_file
                     /\ u.filename \in {<<"clip", "wav">>, <<"clip", "MP3">>}
                     /\ u.content_length = MAX_AUDIO_BYTES
                     /\ u.decodable
                     /\ u.target_phoneme = ""}

\* predict_file's results the threads are run on here: one class certain.
ThreadPredictions == {pr \in PrefixedPredictions : pr.score = ProbUnits}

\* A request arrives, whatever the other requests are doing.
ReceiveThread(r) ==
    /\ req[r].pc = "idle"
    /\ \E u \in ThreadUploads :
         req' = [req EXCEPT ![r] =
                   [pc |-> "validate", upload |-> u, wrote |-> FALSE, saved |-> FALSE,
                    predict_calls |-> 0, stt_calls |-> 0, heuristic_calls |-> 0,
                    raised |-> FALSE, status |-> 0, prediction |-> Idle,
                    response |-> Idle]]
    /\ UNCHANGED <<fs, NotReq>>

\* predict_file(filepath) reads whatever file is at the path now.
PredictThread(r) ==
    /\ req[r].pc = "predict"
    /\ fs[req[r].upload.filename].exists
    /\ fs[req[r].upload.filename].decodable
    /\ \E pr \in ThreadPredictions :
         req' = [req EXCEPT ![r] = [@ EXCEPT !.pc = "analyze",
                                            !.predict_calls = @ + 1,
                                            !.prediction = pr]]
    /\ UNCHANGED <<fs, NotReq>>

NextThreads ==
    \E r \in Reqs :
        \/ ReceiveThread(r)
        \/ Validate(r)
        \/ SaveOk(r)
        \/ SaveFails(r)
        \/ PredictThread(r)
        \/ PredictRaises(r)
        \/ AnalyzeAudio(r)
        \/ AnalyzeTurtle(r)
        \/ AnalyzeSnake(r)
        \/ AnalyzeBalloon(r)
        \/ AnalyzeOnetap(r)
        \/ CleanupRemoves(r)
        \/ CleanupRemoveFails(r)
        \/ Finish(r)

SpecThreads == ReqInit /\ [][NextThreads]_vars

(***************************************************************************)
(* Claims about the classification stage (SpecClassify).                   *)
(***************************************************************************)
ClsDone == cls.pc = "done"

\* The largest probability among the three non-fluent classes.
MaxNonFluent(p) == CHOOSE v \in {p[2], p[3], p[4]} : \A j \in 2..4 : p[j] <= v

TurDone == tur.pc = "done"

TurCount == Len(tur.words)

\* last.end - first.start, in 1/TimeUnits s (0 for an empty list).
TurSpan == IF tur.words = <<>> THEN 0 ELSE tur.words[TurCount].end - tur.words[1].start

\* C7 (as stated): wpm is 0 for fewer than 2 words or a span <= 0 and
\* otherwise equals word_count / span * 60; game_pass is 0 < wpm < 120 and
\* clinical_pass is that the label is not Block.
C7_WpmIsExactQuotient ==
    TurDone =>
        /\ (TurCount < 2 \/ TurSpan <= 0) => tur.response.wpm = 0
        /\ (TurCount >= 2 /\ TurSpan > 0) =>
               tur.response.wpm * TurSpan = TurCount * TimeUnits * 60 * 10
        /\ tur.response.game_pass <=> (0 < tur.response.wpm /\ tur.response.wpm < 1200)
        /\ tur.response.clinical_pass <=> (tur.label \notin {<<"1", "block">>, <<"block">>, <<"Block">>})

\* C7 (amended): as stated, but wpm is word_count / span * 60 rounded to
\* one decimal place (within 0.05 of the quotient), and game_pass is decided
\* on that rounded value.
C7_WpmIsRoundedQuotient ==
    TurDone =>
        /\ (TurCount < 2 \/ TurSpan <= 0) => tur.response.wpm = 0
        /\ (TurCount >= 2 /\ TurSpan > 0) =>
               /\ 2 * (tur.response.wpm * TurSpan - TurCount * TimeUnits * 60 * 10) <= TurSpan
               /\ 2 * (TurCount * TimeUnits * 60 * 10 - tur.response.wpm * TurSpan) <= TurSpan
        /\ tur.response.game_pass <=> (0 < tur.response.wpm /\ tur.response.wpm < 1200)
        /\ tur.response.clinical_pass <=> (tur.label \notin {<<"1", "block">>, <<"block">>, <<"Block">>})

\* Three words spanning 3.5 s: 51.428... is reported as 51.4, game_pass holds.
C7_Witness ==
    /\ TurDone
    /\ TurCount = 3
    /\ TurSpan * 2 = 7 * TimeUnits
    /\ tur.response.wpm = 514
    /\ tur.response.game_pass
    /\ tur.response.clinical_pass

(***************************************************************************)
(* Claims about breath detection (SpecBreath).                             *)
(***************************************************************************)
BreDone == bre.pc = "done"

\* Frame i (1-based) is a non-silent frame that immediately follows a
\* contiguous run of silent frames lasting at least 0.3 s.
BreathOnsetAt(i) ==
    /\ ~IsSilent(bre.rms[i])
    /\ \E k \in 1..(i - 1) :
         /\ \A j \in (i - k)..(i - 1) : IsSilent(bre.rms[j])
         /\ k * bre.audio_len * 10 >= 3 * SAMPLE_RATE * Len(bre.rms)

BreathOnsets == {i \in 1..Len(bre.rms) : BreathOnsetAt(i)}

FirstBreathOnset == CHOOSE i \in BreathOnsets : \A j \in BreathOnsets : i <= j

\* C8 (as stated): breath_detected is true exactly when a silent run of at
\* least 0.3 s is immediately followed by a non-silent frame; amplitude_onset
\* is then the RMS of the first such onset frame, and otherwise the result
\* is breath_detected = false with amplitude_onset = 0.0.
C8_OnsetIsFrameRms ==
    BreDone =>
        /\ bre.response.breath_detected <=> (BreathOnsets # {})
        /\ BreathOnsets # {} =>
               bre.response.amplitude_onset * RmsUnits = bre.rms[FirstBreathOnset] * 1000
        /\ BreathOnsets = {} => bre.response.amplitude_onset = 0

\* C8 (amended): as stated, but amplitude_onset is the RMS of the first such
\* onset frame rounded to three decimal places (within 0.0005 of it).
C8_OnsetIsRoundedFrameRms ==
    BreDone =>
        /\ bre.response.breath_detected <=> (BreathOnsets # {})
        /\ bre.response.game_pass <=> (BreathOnsets # {})
        /\ BreathOnsets # {} =>
               /\ 2 * (bre.response.amplitude_onset * RmsUnits
                       - bre.rms[FirstBreathOnset] * 1000) <= RmsUnits
               /\ 2 * (bre.rms[FirstBreathOnset] * 1000
                       - bre.response.amplitude_onset * RmsUnits) <= RmsUnits
        /\ BreathOnsets = {} => bre.response.amplitude_onset = 0

\* Ten silent frames lasting exactly 0.3 s, then an onset frame of RMS 0.0104
\* reported as 0.010.
C8_Witness ==
    /\ BreDone
    /\ bre.response.breath_detected
    /\ Len(bre.rms) = 16
    /\ 10 * bre.audio_len * 10 = 3 * SAMPLE_RATE * 16
    /\ FirstBreathOnset = 11
    /\ bre.rms[11] * 10000 = 104 * RmsUnits
    /\ bre.response.amplitude_onset = 10

(***************************************************************************)
(* Claims about sustained amplitude (SpecAmp).                             *)
(***************************************************************************)
AmpDone == amp.pc = "done"

\* Frames i .. i + k - 1 are all above the amplitude floor.
AmpRunAt(i, k) == \A j \in i..(i + k - 1) : AboveThreshold(amp.rms[j])

SnkDone == snk.pc = "done"

\* C9: confidence is 0.4 if game_pass, plus 0.3 if clinical_pass, plus 0.2
\* for a confirmed phoneme or 0.15 for an indeterminate one, plus 0.1 if
\* voiced, within [0, 1]; and when speech-to-text gave no words for a
\* supplied target phoneme, the phoneme match is indeterminate and adds 0.15.
C9_NoWordsIsIndeterminate ==
    SnkDone =>
        /\ snk.response.confidence =
               (IF snk.response.game_pass THEN 40 ELSE 0)
               + (IF snk.response.clinical_pass THEN 30 ELSE 0)
               + (IF snk.response.phoneme_match = "True" THEN 20
                  ELSE IF snk.response.phoneme_match = "None" THEN 15 ELSE 0)
               + (IF snk.response.voiced_detected THEN 10 ELSE 0)
        /\ snk.response.confidence \in 0..100
        /\ (snk.target_phoneme # "" /\ snk.words = <<>>) =>
               snk.response.phoneme_match = "None"

\* Speech-to-text gave no usable signal for a supplied target phoneme.
SttIndeterminate == snk.target_phoneme # "" /\ snk.words = <<>>

\* Neither voicing nor the classifier score speaks for speech, for a target
\* of the voiced set.
NoSpeechEvidence ==
    /\ StripLower(snk.target_phoneme) \in voiced_targets
    /\ ~snk.voiced_detected
    /\ snk.score * 10 <= 6 * ProbUnits

\* The anti-blow rule of step 5 changed the phoneme match of step 4.
AntiBlowFired == SnkDone /\ snk.response.phoneme_match # snk.phoneme_match

\* C11: an indeterminate phoneme match (no signal from speech-to-text) is
\* reported as a mismatch exactly when the target is in the voiced set,
\* voicing was not detected and the score is not above 0.6, and stays
\* neutral otherwise; a determinate match is reported as speech-to-text
\* found it, and game_pass and clinical_pass are what the amplitude check
\* and the classifier label give.
C11_MismatchOnlyWithoutSpeechEvidence ==
    SnkDone =>
        /\ SttIndeterminate =>
               /\ NoSpeechEvidence => snk.response.phoneme_match = "False"
               /\ ~NoSpeechEvidence => snk.response.phoneme_match = "None"
        /\ (snk.target_phoneme # "" /\ snk.words # <<>>) =>
               snk.response.phoneme_match =
                   (IF PhonemeFound(snk.words, StripLower(snk.target_phoneme))
                    THEN "True" ELSE "False")
        /\ snk.response.game_pass = snk.amp_data.amplitude_sustained
        /\ snk.response.clinical_pass = ~ContainsLower("repetition", snk.label)

(***************************************************************************)
(* Claims about the request handlers (Spec).                               *)
(***************************************************************************)
\* Request r has left its handler (the response or the error is out).
HandlerFinished(r) == req[r].pc = "done"

\* C4: once the handler of a request that wrote its upload to disk has
\* finished, on any exit path, the file no longer exists at its path.
C4_UploadDeletedOnEveryExit ==
    \A r \in Reqs :
        (HandlerFinished(r) /\ req[r].wrote) => ~fs[req[r].upload.filename].exists

\* C5: a request that passed validation and whose upload was saved always
\* gets a normal verdict response, whatever fails in decoding, inference,
\* the heuristics or speech-to-text; no exception leaves the handler.
C5_FailuresNeverAbort ==
    \A r \in Reqs :
        (HandlerFinished(r) /\ req[r].saved) =>
            /\ req[r].status = 200
            /\ ~req[r].raised
            /\ req[r].response # Idle

\* The upload is missing, has an unsupported extension or is larger than 5 MB.
InvalidInput(u) ==
    \/ ~u.has_file
    \/ Extension(u.filename) \notin {"wav", "m4a", "mp3"}
    \/ u.content_length > 5 * 1024 * 1024

\* C6: on every endpoint such a request is rejected with a client error
\* before the upload is written and before any classifier, heuristic or
\* speech-to-text call.
C6_InvalidInputRejectedFirst ==
    \A r \in Reqs :
        (req[r].pc \notin {"idle", "validate", "finished"} /\ InvalidInput(req[r].upload)) =>
            /\ req[r].pc = "done"
            /\ req[r].status = 400
            /\ ~req[r].wrote
            /\ req[r].predict_calls = 0
            /\ req[r].heuristic_calls = 0
            /\ req[r].stt_calls = 0

(***************************************************************************)
(* Claims about interleaved requests (SpecThreads).                        *)
(***************************************************************************)
\* Request r has saved its upload and has not yet run its own cleanup.
HoldsUpload(r) == req[r].pc \in {"predict", "analyze", "cleanup"}

\* C12: from a request's save until its own cleanup its uploaded file is
\* present at its path with that request's own content, whatever other
\* requests with the same sanitized filename do meanwhile.
C12_UploadIsolated ==
    \A r \in Reqs :
        HoldsUpload(r) =>
            /\ fs[req[r].upload.filename].exists
            /\ fs[req[r].upload.filename].owner = r
            /\ fs[req[r].upload.filename].complete

====
